---------------------------- MODULE Spec2Model ----------------------------
(***************************************************************************)
(* HONE desktop backend (src-tauri/src/lib.rs): the recent-files store and *)
(* the session store, two JSON documents kept in the application-data      *)
(* directory, the commands that read and write them, and the commands      *)
(* read_file, write_file and get_file_dir on the user's files.             *)
(*                                                                         *)
(* A path is a sequence of components; a file's content is a record whose  *)
(* kind says whether the file is absent, holds a well-formed document,     *)
(* holds text that serde_json rejects, holds other text or holds bytes     *)
(* that are no text.  Every command is one atomic step (the commands are   *)
(* called one after the other) but in the specification of the adds that   *)
(* run side by side, where the load and the save of add_recent_file are    *)
(* two steps; the fallible calls of a command fail as the input "fault"    *)
(* says.                                                                   *)
(***************************************************************************)
EXTENDS Integers, Sequences, FiniteSets, TLC

(* ------------------------------ bounds --------------------------------- *)

\* user files of the recent-files specification: <<0, 1>> .. <<0, NumPaths>>
NumPaths == 2
\* user files of the session specification: <<0, 1>> .. <<0, NumOpenPaths>>
NumOpenPaths == 3
\* the clock reads -1 (before the epoch) .. MaxTime seconds
MaxTime == 1
\* longest open_files list handed to save_session
MaxOpen == 3
\* user files of the capacity specification: <<0, 1>> .. <<0, NumCapPaths>>
NumCapPaths == 11
\* the first NumHot of them are deleted, re-created and re-added at will
NumHot == 1
\* the texts write_file is handed for a user file: Text(1) .. Text(NumTexts)
NumTexts == 2
\* longest path string handed to get_file_dir, in tokens
MaxPathLen == 6
\* the commands that run side by side: one per worker 1 .. NumWorkers
NumWorkers == 2

(* ------------------------- program constants --------------------------- *)

MAX_RECENT_FILES == 10

(* ------------------------------- state --------------------------------- *)

VARIABLES
    disk,        \* the user paths that exist on disk
    appDataDir,  \* whether the application-data directory exists
    recentFile,  \* content of recent_files.json
    sessionFile, \* content of session.json
    last,        \* the command just run: its arguments, fault and result
    addOrder,    \* history: paths by last successful add, latest first
    pruned,      \* history: whether get_recent_files ever stored a pruned list
    userText,    \* content of every user file (read where the file exists)
    calls        \* the commands in flight when commands run side by side

vars == <<disk, appDataDir, recentFile, sessionFile, last, addOrder, pruned,
          userText, calls>>

Paths == {<<0, i>> : i \in 1..NumPaths}
OpenPaths == {<<0, i>> : i \in 1..NumOpenPaths}
CapPaths == {<<0, i>> : i \in 1..NumCapPaths}
HotPaths == {<<0, i>> : i \in 1..NumHot}
ClockReadings == -1..MaxTime

\* The fallible steps of a command, in the order it takes them; the first
\* one that fails ends the command, so one fault per call covers every run.
Faults == {"none", "load_dir", "load_read", "save_dir", "save_open", "save_partial"}
SaveFaults == {"save_dir", "save_open", "save_partial"}

(* ---------------------------- file contents ---------------------------- *)

\* Option<T>: None is <<>>, Some(x) is <<x>>
None == <<>>
Some(x) == <<x>>

RecentFile(path, name, accessed_at) ==
    [path |-> path, name |-> name, accessed_at |-> accessed_at]

RecentFilesData(files) == [files |-> files]
RecentFilesDefault == RecentFilesData(<<>>)

SessionData(open_files, active_file) ==
    [open_files |-> open_files, active_file |-> active_file]
SessionDefault == SessionData(<<>>, None)

\* a file that does not exist, and one whose text is not a document (a
\* write that stopped after the file was truncated leaves such text)
AbsentFile == [kind |-> "absent", doc |-> <<>>]
MalformedFile == [kind |-> "malformed", doc |-> <<>>]

\* serde_json::to_string_pretty: the text of a document
to_string_pretty(data) == [kind |-> "json", doc |-> data]

\* serde_json::from_str: the document of a text, or a parse error
from_str(content) ==
    IF content.kind = "json"
    THEN [ok |-> TRUE, err |-> "Ok", val |-> content.doc]
    ELSE [ok |-> FALSE, err |-> "ParseError", val |-> <<>>]

(* ------------------------------ helpers -------------------------------- *)

\* Path::new(p).exists()
PathExists(p, d) == p \in d

\* Path::file_name().and_then(to_str).unwrap_or(&path): the last component,
\* the whole path when there is none
file_name(path) ==
    IF Len(path) = 0 THEN path ELSE <<path[Len(path)]>>

\* SystemTime::now().duration_since(UNIX_EPOCH).map(as_secs).unwrap_or(0)
accessed_at_of(clock) == IF clock < 0 THEN 0 ELSE clock

\* data.files.retain(|f| Path::new(&f.path).exists())
RECURSIVE retain_existing(_, _)
\* (variant that keeps every entry)
retain_existing_mut(files, d) == files
retain_existing(files, d) ==
    IF files = <<>> THEN <<>>
    ELSE LET rest == retain_existing(Tail(files), d)
         IN  IF PathExists(Head(files).path, d)
             THEN <<Head(files)>> \o rest ELSE rest

\* data.files.retain(|f| f.path != path)
RECURSIVE retain_other(_, _)
\* (variant that keeps the old entry of the path)
retain_other_mut(files, path) == files
retain_other(files, path) ==
    IF files = <<>> THEN <<>>
    ELSE LET rest == retain_other(Tail(files), path)
         IN  IF Head(files).path # path
             THEN <<Head(files)>> \o rest ELSE rest

\* data.files.insert(0, entry)
\* (variant that pushes at the back)
insert_front_mut(files, entry) == files \o <<entry>>
insert_front(files, entry) == <<entry>> \o files

\* data.files.truncate(n)
\* (variant that cuts nothing)
truncate_mut(files, n) == files
truncate(files, n) == IF Len(files) > n THEN SubSeq(files, 1, n) ELSE files

(* ------------------------------ the store ------------------------------ *)

\* get_recent_files_path / get_session_path: fails when the directory cannot
\* be resolved or created; otherwise the directory exists afterwards
get_store_path(fault, step) ==
    IF fault = step THEN [ok |-> FALSE, err |-> "DirectoryError"]
    ELSE [ok |-> TRUE, err |-> "Ok"]

\* load_recent_files_data / load_session_data: the default when the file is
\* absent, else the parsed text; "file" is the store file after the load
load_data_mut(file, default, fault) ==
    \* materializes the default document when the file is absent
    IF ~get_store_path(fault, "load_dir").ok
    THEN [ok |-> FALSE, err |-> "DirectoryError", val |-> <<>>, dir |-> FALSE,
          file |-> file]
    ELSE IF file.kind = "absent"
    THEN [ok |-> TRUE, err |-> "Ok", val |-> default, dir |-> TRUE,
          file |-> to_string_pretty(default)]
    ELSE IF fault = "load_read"
    THEN [ok |-> FALSE, err |-> "IoError", val |-> <<>>, dir |-> TRUE,
          file |-> file]
    ELSE [ok |-> from_str(file).ok, err |-> from_str(file).err,
          val |-> from_str(file).val, dir |-> TRUE, file |-> file]
load_data_mut_lenient(file, default, fault) ==
    \* falls back to the default document when the text does not parse
    IF ~get_store_path(fault, "load_dir").ok
    THEN [ok |-> FALSE, err |-> "DirectoryError", val |-> <<>>, dir |-> FALSE,
          file |-> file]
    ELSE IF file.kind = "absent"
    THEN [ok |-> TRUE, err |-> "Ok", val |-> default, dir |-> TRUE,
          file |-> file]
    ELSE IF fault = "load_read"
    THEN [ok |-> FALSE, err |-> "IoError", val |-> <<>>, dir |-> TRUE,
          file |-> file]
    ELSE [ok |-> TRUE, err |-> "Ok",
          val |-> IF from_str(file).ok THEN from_str(file).val ELSE default,
          dir |-> TRUE, file |-> file]
load_data(file, default, fault) ==
    IF ~get_store_path(fault, "load_dir").ok
    THEN [ok |-> FALSE, err |-> "DirectoryError", val |-> <<>>, dir |-> FALSE,
          file |-> file]
    ELSE IF file.kind = "absent"
    THEN [ok |-> TRUE, err |-> "Ok", val |-> default, dir |-> TRUE,
          file |-> file]
    ELSE IF fault = "load_read"
    THEN [ok |-> FALSE, err |-> "IoError", val |-> <<>>, dir |-> TRUE,
          file |-> file]
    ELSE [ok |-> from_str(file).ok, err |-> from_str(file).err,
          val |-> from_str(file).val, dir |-> TRUE, file |-> file]

\* save_recent_files_data / save_session_data: fs::write creates or truncates
\* the file and then writes; it fails before touching the file (save_open)
\* or after truncating it (save_partial)
save_data(file, data, fault) ==
    IF ~get_store_path(fault, "save_dir").ok
    THEN [res |-> "DirectoryError", file |-> file, dir |-> FALSE]
    ELSE IF fault = "save_open"
    THEN [res |-> "IoError", file |-> file, dir |-> TRUE]
    ELSE IF fault = "save_partial"
    THEN [res |-> "IoError", file |-> MalformedFile, dir |-> TRUE]
    ELSE [res |-> "Ok", file |-> to_string_pretty(data), dir |-> TRUE]

\* what a command did: its result, the value it returned, the store file
\* afterwards, whether the directory was resolved, how many entries its
\* retain removed, and the result of the save it attempted ("none": no save)
Outcome(result, value, file, dir, removed, save) ==
    [result |-> result, value |-> value, file |-> file, dir |-> dir,
     removed |-> removed, save |-> save]

(* ------------------------- recent-files service ------------------------ *)

get_recent_files_mut(file, d, fault) ==
    \* swallows the failure of the save, as get_session does
    LET loaded == load_data(file, RecentFilesDefault, fault)
    IN  IF ~loaded.ok
        THEN Outcome(loaded.err, <<>>, loaded.file, loaded.dir, 0, "none")
        ELSE
        LET files == retain_existing(loaded.val.files, d)
            removed == Len(loaded.val.files) - Len(files)
            stored == save_data(loaded.file, RecentFilesData(files), fault)
        IN  IF removed # 0
            THEN Outcome("Ok", files, stored.file, TRUE, removed, stored.res)
            ELSE Outcome("Ok", files, loaded.file, TRUE, 0, "none")
get_recent_files_mut_saves(file, d, fault) ==
    \* saves the list on every call, pruned or not
    LET loaded == load_data(file, RecentFilesDefault, fault)
    IN  IF ~loaded.ok
        THEN Outcome(loaded.err, <<>>, loaded.file, loaded.dir, 0, "none")
        ELSE
        LET original_len == Len(loaded.val.files)
            files == retain_existing(loaded.val.files, d)
            stored == save_data(loaded.file, RecentFilesData(files), fault)
        IN  IF stored.res # "Ok"
            THEN Outcome(stored.res, <<>>, stored.file, TRUE,
                         original_len - Len(files), stored.res)
            ELSE Outcome("Ok", files, stored.file, TRUE,
                         original_len - Len(files), "Ok")
get_recent_files(file, d, fault) ==
    LET loaded == load_data(file, RecentFilesDefault, fault)
    IN  IF ~loaded.ok
        THEN Outcome(loaded.err, <<>>, loaded.file, loaded.dir, 0, "none")
        ELSE
        LET original_len == Len(loaded.val.files)
            files == retain_existing(loaded.val.files, d)
        IN  IF Len(files) # original_len
            THEN LET stored == save_data(loaded.file, RecentFilesData(files), fault)
                 IN  IF stored.res # "Ok"
                     THEN Outcome(stored.res, <<>>, stored.file, TRUE,
                                  original_len - Len(files), stored.res)
                     ELSE Outcome("Ok", files, stored.file, TRUE,
                                  original_len - Len(files), "Ok")
            ELSE Outcome("Ok", files, loaded.file, TRUE, 0, "none")

\* add_recent_file once the path is known to exist
add_existing_file(file, path, clock, fault) ==
    LET loaded == load_data(file, RecentFilesDefault, fault)
    IN  IF ~loaded.ok
        THEN Outcome(loaded.err, <<>>, loaded.file, loaded.dir, 0, "none")
        ELSE
        LET name == file_name(path)
            accessed_at == accessed_at_of(clock)
            kept == retain_other(loaded.val.files, path)
            inserted == insert_front(kept, RecentFile(path, name, accessed_at))
            files == truncate(inserted, MAX_RECENT_FILES)
            stored == save_data(loaded.file, RecentFilesData(files), fault)
        IN  Outcome(stored.res, <<>>, stored.file, TRUE,
                    Len(loaded.val.files) - Len(kept), stored.res)

\* add_recent_file after its load: "loaded" is the text the load read
\* and "stored" the text in the file when the save starts, which the
\* command does not look at
\* (variant that holds the store from load to save: works on what is stored)
add_after_load_mut(loaded, stored, path, clock, fault) ==
    add_existing_file(stored, path, clock, fault)
add_after_load(loaded, stored, path, clock, fault) ==
    add_existing_file(loaded, path, clock, fault)

add_recent_file_mut_unwrap(file, d, path, clock, fault) ==
    \* unwraps the clock reading: panics when the clock reads before the epoch
    IF ~PathExists(path, d)
    THEN Outcome("NotFoundError", <<>>, file, FALSE, 0, "none")
    ELSE IF load_data(file, RecentFilesDefault, fault).ok /\ clock < 0
    THEN Outcome("Abort", <<>>, file, TRUE, 0, "none")
    ELSE add_existing_file(file, path, clock, fault)
add_recent_file_mut(file, d, path, clock, fault) ==
    \* does not verify that the file exists
    add_existing_file(file, path, clock, fault)
add_recent_file(file, d, path, clock, fault) ==
    IF ~PathExists(path, d)
    THEN Outcome("NotFoundError", <<>>, file, FALSE, 0, "none")
    ELSE add_existing_file(file, path, clock, fault)

(* ---------------------------- session service -------------------------- *)

\* data.open_files.retain(|p| Path::new(p).exists())
RECURSIVE retain_open(_, _)
retain_open(open_files, d) ==
    IF open_files = <<>> THEN <<>>
    ELSE LET rest == retain_open(Tail(open_files), d)
         IN  IF PathExists(Head(open_files), d)
             THEN <<Head(open_files)>> \o rest ELSE rest

\* if let Some(ref active) = data.active_file { if !exists { None } }
\* (variant that keeps a missing active file)
clear_missing_active_mut(active_file, d) == active_file
clear_missing_active(active_file, d) ==
    IF active_file # None /\ ~PathExists(active_file[1], d)
    THEN None ELSE active_file

get_session_mut(file, d, fault) ==
    \* propagates the failure of the save, as get_recent_files does
    LET loaded == load_data(file, SessionDefault, fault)
    IN  IF ~loaded.ok
        THEN Outcome(loaded.err, <<>>, loaded.file, loaded.dir, 0, "none")
        ELSE
        LET open_files == retain_open(loaded.val.open_files, d)
            data == SessionData(open_files,
                                clear_missing_active(loaded.val.active_file, d))
            removed == Len(loaded.val.open_files) - Len(open_files)
            stored == save_data(loaded.file, data, fault)
        IN  IF removed # 0
            THEN Outcome(stored.res, IF stored.res = "Ok" THEN data ELSE <<>>,
                         stored.file, TRUE, removed, stored.res)
            ELSE Outcome("Ok", data, loaded.file, TRUE, 0, "none")
get_session_mut_active(file, d, fault) ==
    \* saves also when only the active file was cleared
    LET loaded == load_data(file, SessionDefault, fault)
    IN  IF ~loaded.ok
        THEN Outcome(loaded.err, <<>>, loaded.file, loaded.dir, 0, "none")
        ELSE
        LET original_len == Len(loaded.val.open_files)
            open_files == retain_open(loaded.val.open_files, d)
            active_file == clear_missing_active(loaded.val.active_file, d)
            data == SessionData(open_files, active_file)
        IN  IF data # loaded.val
            THEN LET stored == save_data(loaded.file, data, fault)
                 IN  Outcome("Ok", data, stored.file, TRUE,
                             original_len - Len(open_files), stored.res)
            ELSE Outcome("Ok", data, loaded.file, TRUE, 0, "none")
get_session(file, d, fault) ==
    LET loaded == load_data(file, SessionDefault, fault)
    IN  IF ~loaded.ok
        THEN Outcome(loaded.err, <<>>, loaded.file, loaded.dir, 0, "none")
        ELSE
        LET original_len == Len(loaded.val.open_files)
            open_files == retain_open(loaded.val.open_files, d)
            active_file == clear_missing_active(loaded.val.active_file, d)
            data == SessionData(open_files, active_file)
        IN  IF Len(open_files) # original_len
            THEN LET stored == save_data(loaded.file, data, fault)
                 IN  Outcome("Ok", data, stored.file, TRUE,
                             original_len - Len(open_files), stored.res)
            ELSE Outcome("Ok", data, loaded.file, TRUE, 0, "none")

save_session_mut(file, open_files, active_file, fault) ==
    \* keeps the stored active_file when none is given
    LET old == from_str(file)
        kept == IF active_file = None /\ old.ok
                THEN old.val.active_file ELSE active_file
        stored == save_data(file, SessionData(open_files, kept), fault)
    IN  Outcome(stored.res, <<>>, stored.file, stored.dir, 0, stored.res)
save_session_mut_loads(file, open_files, active_file, fault) ==
    \* loads the stored session before it saves, as add_recent_file does
    LET loaded == load_data(file, SessionDefault, fault)
        stored == save_data(file, SessionData(open_files, active_file), fault)
    IN  IF ~loaded.ok
        THEN Outcome(loaded.err, <<>>, loaded.file, loaded.dir, 0, "none")
        ELSE Outcome(stored.res, <<>>, stored.file, stored.dir, 0, stored.res)
save_session(file, open_files, active_file, fault) ==
    LET data == SessionData(open_files, active_file)
        stored == save_data(file, data, fault)
    IN  Outcome(stored.res, <<>>, stored.file, stored.dir, 0, stored.res)

(* ------------------------------ file access ---------------------------- *)

\* the text of a user file, and a file whose bytes are not UTF-8
Text(t) == [kind |-> "text", doc |-> t]
BinaryFile == [kind |-> "binary", doc |-> <<>>]
UserTexts == {Text(t) : t \in 1..NumTexts}

\* every user file starts with the first text
InitText == [p \in Paths |-> Text(1)]

\* app_data_dir()/recent_files.json and app_data_dir()/session.json as
\* paths: the application-data directory is <<0, 0>>, no user file is in it
RecentFilesPath == <<0, 0, 1>>
SessionPath == <<0, 0, 2>>
StorePaths == {RecentFilesPath, SessionPath}

FileFaults == {"none", "load_read", "save_open", "save_partial"}

\* fs::read_to_string(&path): the text of the file; fails when the file is
\* missing, cannot be read, or holds bytes that are not UTF-8
read_file(content, fault) ==
    IF content.kind = "absent" \/ fault = "load_read" \/ content.kind = "binary"
    THEN [result |-> "IoError", value |-> <<>>]
    ELSE [result |-> "Ok", value |-> content]

\* fs::write(&path, content): creates the file or truncates it, then writes
\* the text; fails before touching the file (no parent directory, or the
\* file cannot be opened) or after truncating it
\* (variant that leaves a file that exists as it is)
write_file_mut(file, content, parent, fault) ==
    IF file.kind # "absent" THEN [result |-> "Ok", file |-> file]
    ELSE [result |-> "Ok", file |-> content]
write_file(file, content, parent, fault) ==
    IF ~parent \/ fault = "save_open"
    THEN [result |-> "IoError", file |-> file]
    ELSE IF fault = "save_partial"
    THEN [result |-> "IoError", file |-> MalformedFile]
    ELSE [result |-> "Ok", file |-> content]

(* ----------------------------- path strings --------------------------- *)
(* get_file_dir takes the path as text.  A path string is a sequence of    *)
(* tokens: the separator "/", a dot, or a piece of a name (a run of        *)
(* characters with no separator and no dot standing alone).  Path::parent  *)
(* walks the string from its end, as std::path::Components does on Unix.   *)

PathTokens == {"/", ".", "a", "b", "c.txt"}
PathStrings == UNION {[1..n -> PathTokens] : n \in 0..MaxPathLen}

\* Components::has_physical_root
has_physical_root(s) == Len(s) > 0 /\ s[1] = "/"

\* Components::include_cur_dir: a relative path that starts with "." alone
include_cur_dir(s, root) ==
    /\ ~root
    /\ Len(s) >= 1 /\ s[1] = "."
    /\ (Len(s) = 1 \/ s[2] = "/")

\* Components::len_before_body
len_before_body(s, root) ==
    (IF root THEN 1 ELSE 0) + (IF include_cur_dir(s, root) THEN 1 ELSE 0)

\* Components::parse_single_component: "" and "." are no component
parse_single_component(comp) ==
    IF comp = <<>> \/ comp = <<".">> THEN None
    ELSE IF comp = <<".", ".">> THEN Some("ParentDir")
    ELSE Some("Normal")

\* Components::parse_next_component_back: what follows the last separator
\* of the body, and how much of the string it takes with that separator
parse_next_component_back(s, root) ==
    LET start == len_before_body(s, root)
        seps == {i \in (start + 1)..Len(s) : s[i] = "/"}
        from == IF seps = {} THEN start
                ELSE CHOOSE i \in seps : \A j \in seps : j <= i
        comp == SubSeq(s, from + 1, Len(s))
    IN  [size |-> Len(comp) + (IF seps = {} THEN 0 ELSE 1),
         comp |-> parse_single_component(comp)]

\* Components::next_back: the last component, the string before it, and
\* where the walk stands
RECURSIVE next_back(_, _, _)
next_back(s, root, back) ==
    IF back = "Body" /\ Len(s) > len_before_body(s, root)
    THEN LET p == parse_next_component_back(s, root)
             rest == SubSeq(s, 1, Len(s) - p.size)
         IN  IF p.comp # None
             THEN [comp |-> p.comp, path |-> rest, back |-> "Body"]
             ELSE next_back(rest, root, "Body")
    ELSE IF back = "Body" THEN next_back(s, root, "StartDir")
    ELSE IF root
    THEN [comp |-> Some("RootDir"), path |-> SubSeq(s, 1, Len(s) - 1),
          back |-> "Prefix"]
    ELSE IF include_cur_dir(s, root)
    THEN [comp |-> Some("CurDir"), path |-> SubSeq(s, 1, Len(s) - 1),
          back |-> "Prefix"]
    ELSE [comp |-> None, path |-> s, back |-> "Done"]

\* Components::trim_right: drops what is no component at the end
RECURSIVE trim_right(_, _)
trim_right(s, root) ==
    IF Len(s) > len_before_body(s, root)
    THEN LET p == parse_next_component_back(s, root)
         IN  IF p.comp # None THEN s
             ELSE trim_right(SubSeq(s, 1, Len(s) - p.size), root)
    ELSE s

\* Path::parent: the string without its last component; None when there
\* is no component or the last one is the root
parent(s) ==
    LET root == has_physical_root(s)
        comps == next_back(s, root, "Body")
    IN  IF comps.comp = None \/ comps.comp = Some("RootDir") THEN None
        ELSE Some(IF comps.back = "Body"
                  THEN trim_right(comps.path, root) ELSE comps.path)

\* get_file_dir: parent().and_then(to_str).map(to_string).ok_or_else(..);
\* to_str succeeds on every slice of a String
\* (variant that rejects a path whose parent is the empty path)
get_file_dir_mut(path) ==
    IF parent(path) = None \/ parent(path) = Some(<<>>)
    THEN [result |-> "PathError", value |-> <<>>]
    ELSE [result |-> "Ok", value |-> parent(path)[1]]
get_file_dir(path) ==
    IF parent(path) = None
    THEN [result |-> "PathError", value |-> <<>>]
    ELSE [result |-> "Ok", value |-> parent(path)[1]]

(* --------------------------- commands in flight ------------------------ *)

Workers == 1..NumWorkers

\* a worker that runs no command
IdleCall ==
    [pc |-> "idle", op |-> "none", path |-> <<>>, fault |-> "none",
     loaded |-> AbsentFile, result |-> "Ok"]

NoCalls == [w \in Workers |-> IdleCall]

\* the user file worker w adds
WorkerPath(w) == <<0, w>>

(* ------------------------------- actions ------------------------------- *)

\* the fault that ended a step of the command, "none" when every step the
\* command took succeeded
EffectiveFault(fault, out) ==
    IF out.save \notin {"none", "Ok"} \/ out.result \in {"DirectoryError", "IoError"}
    THEN fault ELSE "none"

\* the record of a command: its name and arguments, the clock reading
\* it stored (None when it stored none), the fault that hit it, whether the
\* store could be written while it ran (recorded for get_recent_files), and
\* what it did
Call(op, path, fault, out) ==
    [op |-> op, path |-> path, open_files |-> <<>>, active_file |-> None,
     content |-> None, clock |-> None,
     fault |-> EffectiveFault(fault, out), writable |-> TRUE,
     result |-> out.result, value |-> out.value, removed |-> out.removed,
     save |-> out.save]

Idle == [op |-> "none", path |-> <<>>, open_files |-> <<>>,
         active_file |-> None, content |-> None, clock |-> None,
         fault |-> "none",
         writable |-> TRUE, result |-> "Ok", value |-> <<>>, removed |-> 0,
         save |-> "none"]

GetRecentFiles(fault) ==
    \E out \in {get_recent_files(recentFile, disk, fault)} :
        /\ recentFile' = out.file
        /\ appDataDir' = (appDataDir \/ out.dir)
        /\ last' = [Call("get_recent_files", <<>>, fault, out) EXCEPT
                        !.writable = fault \notin SaveFaults]
        /\ UNCHANGED <<disk, sessionFile, userText, calls>>

AddRecentFile(path, clock, fault) ==
    \E out \in {add_recent_file(recentFile, disk, path, clock, fault)} :
        /\ recentFile' = out.file
        /\ appDataDir' = (appDataDir \/ out.dir)
        /\ last' = [Call("add_recent_file", path, fault, out) EXCEPT
                        !.clock = IF out.save = "none" THEN None ELSE Some(clock)]
        /\ UNCHANGED <<disk, sessionFile, userText, calls>>

GetSession(fault) ==
    \E out \in {get_session(sessionFile, disk, fault)} :
        /\ sessionFile' = out.file
        /\ appDataDir' = (appDataDir \/ out.dir)
        /\ last' = Call("get_session", <<>>, fault, out)
        /\ UNCHANGED <<disk, recentFile, userText, calls>>

SaveSession(open_files, active_file, fault) ==
    \E out \in {save_session(sessionFile, open_files, active_file, fault)} :
        /\ sessionFile' = out.file
        /\ appDataDir' = (appDataDir \/ out.dir)
        /\ last' = [Call("save_session", <<>>, fault, out) EXCEPT
                        !.open_files = open_files, !.active_file = active_file]
        /\ UNCHANGED <<disk, recentFile, userText, calls>>

\* add_recent_file run side by side with other calls: the call is handed
\* to a worker, its existence test and load are one step, and what it does
\* with the loaded list, save included, is a later step.  A worker that
\* runs no call shows the outcome of its last one.
InvokeAdd(w, path, fault) ==
    /\ calls[w].pc = "idle"
    /\ calls' = [calls EXCEPT ![w] =
                    [pc |-> "called", op |-> "add_recent_file", path |-> path,
                     fault |-> fault, loaded |-> AbsentFile, result |-> "Ok"]]
    /\ UNCHANGED <<disk, appDataDir, recentFile, sessionFile, last, userText>>

AddLoad(w) ==
    /\ calls[w].pc = "called"
    /\ IF ~PathExists(calls[w].path, disk)
       THEN /\ calls' = [calls EXCEPT ![w].pc = "idle",
                                      ![w].result = "NotFoundError"]
            /\ appDataDir' = appDataDir
       ELSE \E ld \in {load_data(recentFile, RecentFilesDefault, calls[w].fault)} :
                /\ calls' = [calls EXCEPT
                                ![w].pc = IF ld.ok THEN "loaded" ELSE "idle",
                                ![w].loaded = IF ld.ok THEN recentFile ELSE AbsentFile,
                                ![w].result = ld.err]
                /\ appDataDir' = (appDataDir \/ ld.dir)
    /\ UNCHANGED <<disk, recentFile, sessionFile, last, userText>>

AddSave(w) ==
    /\ calls[w].pc = "loaded"
    /\ \E out \in {add_after_load(calls[w].loaded, recentFile, calls[w].path,
                                   0, calls[w].fault)} :
           /\ recentFile' = IF out.save # "Ok" /\ out.file = calls[w].loaded
                            THEN recentFile ELSE out.file
           /\ appDataDir' = (appDataDir \/ out.dir)
           /\ calls' = [calls EXCEPT ![w].pc = "idle", ![w].result = out.result]
    /\ UNCHANGED <<disk, sessionFile, last, userText>>

\* the file at a path, and whether the directory it is in exists
FileAt(path) ==
    IF path = RecentFilesPath THEN recentFile
    ELSE IF path = SessionPath THEN sessionFile
    ELSE IF path \in disk THEN userText[path]
    ELSE AbsentFile

ParentExists(path) == IF path \in StorePaths THEN appDataDir ELSE TRUE

ReadFile(path, fault) ==
    \E out \in {read_file(FileAt(path), fault)} :
        /\ last' = [Idle EXCEPT !.op = "read_file", !.path = path,
                                !.fault = IF FileAt(path).kind = "absent"
                                          THEN "none" ELSE fault,
                                !.result = out.result, !.value = out.value]
        /\ UNCHANGED <<disk, appDataDir, recentFile, sessionFile, userText, calls>>

WriteFile(path, content, fault) ==
    \E out \in {write_file(FileAt(path), content, ParentExists(path), fault)} :
        /\ recentFile' = IF path = RecentFilesPath THEN out.file ELSE recentFile
        /\ sessionFile' = IF path = SessionPath THEN out.file ELSE sessionFile
        /\ disk' = IF path \notin StorePaths /\ out.file.kind # "absent"
                   THEN disk \cup {path} ELSE disk
        /\ userText' = IF path \notin StorePaths /\ out.file.kind # "absent"
                       THEN [userText EXCEPT ![path] = out.file] ELSE userText
        /\ last' = [Idle EXCEPT !.op = "write_file", !.path = path,
                                !.content = Some(content),
                                !.fault = IF ParentExists(path)
                                          THEN fault ELSE "none",
                                !.result = out.result]
        /\ UNCHANGED <<appDataDir, calls>>

GetFileDir(path) ==
    /\ \E out \in {get_file_dir(path)} :
           last' = [Idle EXCEPT !.op = "get_file_dir", !.path = path,
                                !.result = out.result, !.value = out.value]
    /\ UNCHANGED <<disk, appDataDir, recentFile, sessionFile, userText, calls>>

\* another program overwrites a user file with bytes that are not UTF-8
EditFile(p) ==
    /\ p \in disk
    /\ userText[p] # BinaryFile
    /\ userText' = [userText EXCEPT ![p] = BinaryFile]
    /\ last' = Idle
    /\ UNCHANGED <<disk, appDataDir, recentFile, sessionFile, calls>>

\* the user, or another program, creates or deletes a user file
CreateFile(p) ==
    /\ p \notin disk
    /\ disk' = disk \cup {p}
    /\ last' = Idle
    /\ UNCHANGED <<appDataDir, recentFile, sessionFile, userText, calls>>

DeleteFile(p) ==
    /\ p \in disk
    /\ disk' = disk \ {p}
    /\ last' = Idle
    /\ UNCHANGED <<appDataDir, recentFile, sessionFile, userText, calls>>

\* history of the successful adds: the path just added moves to the front
RECURSIVE Without(_, _)
Without(paths, p) ==
    IF paths = <<>> THEN <<>>
    ELSE IF Head(paths) = p THEN Without(Tail(paths), p)
    ELSE <<Head(paths)>> \o Without(Tail(paths), p)

RecordAdd(path) ==
    /\ addOrder' = IF last'.result = "Ok"
                   THEN <<path>> \o Without(addOrder, path) ELSE addOrder
    /\ pruned' = pruned

RecordGet ==
    /\ addOrder' = addOrder
    /\ pruned' = (pruned \/ (last'.removed > 0 /\ last'.save = "Ok"))

\* the specifications that keep no history
NoHistory == UNCHANGED <<addOrder, pruned>>

(* ------------------ specification: recent-files service ---------------- *)
(* Every command of the recent-files service with every fault, every clock *)
(* reading, and files created and deleted at will.                         *)

Init ==
    /\ disk \in SUBSET Paths
    /\ appDataDir = FALSE
    /\ recentFile = AbsentFile
    /\ sessionFile = AbsentFile
    /\ last = Idle
    /\ addOrder = <<>>
    /\ pruned = FALSE
    /\ userText = InitText
    /\ calls = NoCalls

RecentGet == \E f \in Faults : GetRecentFiles(f) /\ NoHistory

RecentAdd ==
    \E p \in Paths, c \in ClockReadings, f \in Faults :
        AddRecentFile(p, c, f) /\ NoHistory

UserCreate == \E p \in Paths : CreateFile(p) /\ NoHistory

UserDelete == \E p \in Paths : DeleteFile(p) /\ NoHistory

Next == RecentGet \/ RecentAdd \/ UserCreate \/ UserDelete

Spec == Init /\ [][Next]_vars

(* --------------------- specification: session service ------------------ *)
(* Every command of the session service with the faults of its reads and  *)
(* writes; save_session is handed any list of up to MaxOpen distinct paths *)
(* and any active file.                                                    *)

RECURSIVE ListsUpTo(_, _)
ListsUpTo(S, n) ==
    IF n = 0 THEN {<<>>}
    ELSE LET shorter == ListsUpTo(S, n - 1)
         IN  shorter \cup
             {<<p>> \o l : <<p, l>> \in
                 {x \in S \X shorter : Len(x[2]) = n - 1 /\
                                        \A i \in 1..Len(x[2]) : x[2][i] # x[1]}}

OpenLists == ListsUpTo(OpenPaths, MaxOpen)
ActiveFiles == {None} \cup {Some(p) : p \in OpenPaths}

InitSession ==
    /\ disk \in SUBSET OpenPaths
    /\ appDataDir = FALSE
    /\ recentFile = AbsentFile
    /\ sessionFile = AbsentFile
    /\ last = Idle
    /\ addOrder = <<>>
    /\ pruned = FALSE
    /\ userText = InitText
    /\ calls = NoCalls

\* the directory is always resolved; the reads and the writes of the
\* file fail at will
SessionFaults == {"none", "load_read", "save_open", "save_partial"}

SessionGet == \E f \in SessionFaults : GetSession(f) /\ NoHistory

SessionSave ==
    \E o \in OpenLists, a \in ActiveFiles :
        SaveSession(o, a, "none") /\ NoHistory

\* a save that fails stores nothing of its arguments: one call per fault
SessionSaveFault ==
    \E f \in SaveFaults : SaveSession(<<>>, None, f) /\ NoHistory

SessionCreate == \E p \in OpenPaths : CreateFile(p) /\ NoHistory

SessionDelete == \E p \in OpenPaths : DeleteFile(p) /\ NoHistory

NextSession ==
    SessionGet \/ SessionSave \/ SessionSaveFault \/ SessionCreate \/ SessionDelete

SpecSession == InitSession /\ [][NextSession]_vars

(* ------------------- specification: the ten-entry cap ------------------ *)
(* More user files than the list holds.  The files NumHot + 1 .. are added *)
(* once each, in the order of their numbers, and stay on disk; the first   *)
(* NumHot are added, deleted, re-created and re-added at will.  Every add  *)
(* reads the same second off the clock; the directory is always resolved,  *)
(* the reads and the writes of the file fail at will.                      *)

CapFaults == {"none", "load_read", "save_open", "save_partial"}

ColdAdded == {p \in CapPaths \ HotPaths : \E i \in 1..Len(addOrder) : addOrder[i] = p}

NextCold == <<0, NumHot + 1 + Cardinality(ColdAdded)>>

InitCap ==
    /\ disk = CapPaths
    /\ appDataDir = FALSE
    /\ recentFile = AbsentFile
    /\ sessionFile = AbsentFile
    /\ last = Idle
    /\ addOrder = <<>>
    /\ pruned = FALSE
    /\ userText = InitText
    /\ calls = NoCalls

CapGet == \E f \in CapFaults : GetRecentFiles(f) /\ RecordGet

CapAdd ==
    \E p \in HotPaths \cup ({NextCold} \cap CapPaths), f \in CapFaults :
        AddRecentFile(p, 0, f) /\ RecordAdd(p)

CapCreate == \E p \in HotPaths : CreateFile(p) /\ NoHistory

CapDelete == \E p \in HotPaths : DeleteFile(p) /\ NoHistory

NextCap == CapGet \/ CapAdd \/ CapCreate \/ CapDelete

SpecCap == InitCap /\ [][NextCap]_vars

(* -------------------- specification: the two stores -------------------- *)
(* Both services side by side: every add reads the same second off the     *)
(* clock, and save_session is handed a list of at most one path.           *)

ShortLists == {<<>>} \cup {<<p>> : p \in Paths}

StoresGetSession == \E f \in Faults : GetSession(f) /\ NoHistory

StoresSaveSession ==
    \E o \in ShortLists, a \in {None} \cup {Some(p) : p \in Paths} :
        SaveSession(o, a, "none") /\ NoHistory

StoresAdd ==
    \E p \in Paths, f \in {"none", "load_read", "save_partial"} :
        AddRecentFile(p, 0, f) /\ NoHistory

NextStores ==
    \/ RecentGet \/ StoresAdd \/ StoresGetSession \/ StoresSaveSession
    \/ SessionSaveFault
    \/ UserCreate \/ UserDelete

SpecStores == Init /\ [][NextStores]_vars

(* ------------------- specification: the command surface ---------------- *)
(* The commands of both stores together with read_file and write_file,     *)
(* which take any path: a user file, or the file of a store, to which      *)
(* write_file is handed the text of an empty document or a text that is    *)
(* no document.  The session commands take the empty session, the clock    *)
(* reads before the epoch or at it, and get_file_dir takes the path        *)
(* strings of one token at most.                                           *)

StoreTexts(path) ==
    {MalformedFile,
     to_string_pretty(IF path = RecentFilesPath
                      THEN RecentFilesDefault ELSE SessionDefault)}

SurfaceRead ==
    \E p \in StorePaths \cup Paths, f \in {"none", "load_read"} :
        ReadFile(p, f) /\ NoHistory

SurfaceWrite ==
    \/ \E p \in StorePaths, f \in FileFaults \ {"load_read"} :
          \E t \in StoreTexts(p) : WriteFile(p, t, f) /\ NoHistory
    \/ \E p \in Paths : WriteFile(p, Text(1), "none") /\ NoHistory

SurfaceGetSession == GetSession("none") /\ NoHistory

SurfaceSaveSession ==
    \E f \in {"none", "save_partial"} : SaveSession(<<>>, None, f) /\ NoHistory

SurfaceAdd ==
    \E p \in Paths, c \in {-1, 0}, f \in Faults :
        AddRecentFile(p, c, f) /\ NoHistory

SurfaceStrings == {<<>>} \cup {<<t>> : t \in PathTokens}

SurfaceDir == \E s \in SurfaceStrings : GetFileDir(s) /\ NoHistory

NextSurface ==
    \/ RecentGet \/ SurfaceAdd \/ SurfaceGetSession \/ SurfaceSaveSession
    \/ SurfaceRead \/ SurfaceWrite \/ SurfaceDir \/ UserCreate \/ UserDelete

SpecSurface == Init /\ [][NextSurface]_vars

(* ------------------- specification: adds side by side ------------------ *)
(* Every worker adds its own user file, again and again; the loads and the *)
(* saves of the calls interleave in every order.  All the files exist and  *)
(* every add reads the same second off the clock.                          *)

RaceFaults == {"none", "save_open"}

InitRace ==
    /\ disk = {WorkerPath(w) : w \in Workers}
    /\ appDataDir = FALSE
    /\ recentFile = AbsentFile
    /\ sessionFile = AbsentFile
    /\ last = Idle
    /\ addOrder = <<>>
    /\ pruned = FALSE
    /\ userText = InitText
    /\ calls = NoCalls

RaceInvoke ==
    \E w \in Workers, f \in RaceFaults : InvokeAdd(w, WorkerPath(w), f) /\ NoHistory

RaceLoad == \E w \in Workers : AddLoad(w) /\ NoHistory

RaceSave == \E w \in Workers : AddSave(w) /\ NoHistory

NextRace == RaceInvoke \/ RaceLoad \/ RaceSave

SpecRace == InitRace /\ [][NextRace]_vars

(* ---------------------- specification: file access --------------------- *)
(* read_file and write_file on the user files, with every fault, while     *)
(* files are created, deleted and overwritten by other programs.           *)

FilesRead ==
    \E p \in Paths, f \in {"none", "load_read"} : ReadFile(p, f) /\ NoHistory

FilesWrite ==
    \E p \in Paths, t \in UserTexts, f \in FileFaults \ {"load_read"} :
        WriteFile(p, t, f) /\ NoHistory

FilesEdit == \E p \in Paths : EditFile(p) /\ NoHistory

NextFiles == FilesRead \/ FilesWrite \/ FilesEdit \/ UserCreate \/ UserDelete

SpecFiles == Init /\ [][NextFiles]_vars

(* --------------------- specification: get_file_dir --------------------- *)
(* get_file_dir applied once to every path string of up to MaxPathLen      *)
(* tokens.                                                                 *)

InitPath ==
    /\ disk = {}
    /\ appDataDir = FALSE
    /\ recentFile = AbsentFile
    /\ sessionFile = AbsentFile
    /\ last \in {[Idle EXCEPT !.path = s] : s \in PathStrings}
    /\ addOrder = <<>>
    /\ pruned = FALSE
    /\ userText = InitText
    /\ calls = NoCalls

\* get_file_dir on the path string the caller holds
PathDir == last.op = "none" /\ GetFileDir(last.path) /\ NoHistory

NextPath == PathDir

SpecPath == InitPath /\ [][NextPath]_vars

(* ============================== properties ============================= *)

\* the list stored in recent_files.json, and its paths
StoredFiles == recentFile.doc.files
PathsOf(files) == [i \in 1..Len(files) |-> files[i].path]
Readable(file) == file.kind = "json"

(* C1: add_recent_file with a path that does not exist fails with the      *)
(* not-found error and leaves recent_files.json (also its absence) and the *)
(* application-data directory as they were.                                *)
C1_MissingPathRejected ==
    [][(last'.op = "add_recent_file" /\ ~PathExists(last'.path, disk'))
        => /\ last'.result = "NotFoundError"
           /\ recentFile' = recentFile
           /\ appDataDir' = appDataDir]_vars

C1_Witness ==
    /\ last.op = "add_recent_file"
    /\ last.path \notin disk
    /\ last.result = "NotFoundError"
    /\ Readable(recentFile) /\ Len(StoredFiles) > 0

(* C2: after a successful add_recent_file(path) the stored list holds      *)
(* exactly one entry for path, at the front, stamped with the second this  *)
(* call read off the clock (0 when the clock reads before the epoch);      *)
(* this holds in particular when the path was in the list already.         *)
C2_ReAddRefreshes ==
    (last.op = "add_recent_file" /\ last.result = "Ok")
    => /\ Readable(recentFile)
       /\ Len(StoredFiles) >= 1
       /\ StoredFiles[1].path = last.path
       /\ Cardinality({i \in 1..Len(StoredFiles) : StoredFiles[i].path = last.path}) = 1
       /\ last.clock # None
       /\ StoredFiles[1].accessed_at = IF last.clock[1] >= 0 THEN last.clock[1] ELSE 0

C2_Witness ==
    /\ last.op = "add_recent_file" /\ last.result = "Ok"
    /\ last.removed = 1
    /\ Len(StoredFiles) = 2
    /\ StoredFiles[1].accessed_at = 1
    /\ StoredFiles[2].accessed_at = 0

\* the first n elements of a sequence (all of it when it is shorter)
Take(seq, n) == SubSeq(seq, 1, IF Len(seq) < n THEN Len(seq) ELSE n)

\* the place of p in a sequence of distinct paths, 0 when it is not in it
PlaceIn(seq, p) ==
    IF \E i \in 1..Len(seq) : seq[i] = p
    THEN CHOOSE i \in 1..Len(seq) : seq[i] = p ELSE 0

(* C3: as long as no pruned list was stored, the stored list is the paths  *)
(* added so far, latest add first, cut to the first ten: once eleven or    *)
(* more distinct paths have been added it holds exactly ten entries, the   *)
(* ten added last, and the ones added before them are gone.                *)
C3_KeepsTenLatest ==
    (Readable(recentFile) /\ ~pruned)
    => /\ PathsOf(StoredFiles) = Take(addOrder, 10)
       /\ (Len(addOrder) > 10)
            => /\ Len(StoredFiles) = 10
               /\ \A i \in 11..Len(addOrder) :
                    \A j \in 1..Len(StoredFiles) : StoredFiles[j].path # addOrder[i]

C3_Witness ==
    /\ Readable(recentFile) /\ ~pruned
    /\ last.op = "add_recent_file" /\ last.result = "Ok" /\ last.removed = 0
    /\ Len(addOrder) = 11
    /\ Len(StoredFiles) = 10
    /\ StoredFiles[1].path = addOrder[1]
    /\ StoredFiles[10].path = addOrder[10]

(* C4: whatever adds, reads, creations and deletions came before, the      *)
(* stored list has at most ten entries, no path twice, and its entries     *)
(* stand in the order of their last successful add, latest first.          *)
C4_BoundedUniqueOrdered ==
    Readable(recentFile)
    => /\ Len(StoredFiles) <= 10
       /\ \A i, j \in 1..Len(StoredFiles) :
            (i # j) => (StoredFiles[i].path # StoredFiles[j].path)
       /\ \A i \in 1..Len(StoredFiles) : PlaceIn(addOrder, StoredFiles[i].path) > 0
       /\ \A i, j \in 1..Len(StoredFiles) :
            (i < j) => (PlaceIn(addOrder, StoredFiles[i].path)
                          < PlaceIn(addOrder, StoredFiles[j].path))

C4_Witness ==
    /\ Readable(recentFile) /\ pruned
    /\ Len(StoredFiles) = 10
    /\ Len(addOrder) = 11
    /\ last.op = "add_recent_file" /\ last.result = "Ok"
    /\ last.path \in HotPaths

(* C5: a get_recent_files that succeeds returns no entry whose path is     *)
(* missing; when the store listed M entries, N of them missing, the list   *)
(* it returns is the stored list without the missing entries, M - N long   *)
(* and in the stored order, and it is the list stored afterwards.          *)
MissingIn(files, d) == {i \in 1..Len(files) : ~PathExists(files[i].path, d)}

C5_PruneOnRead ==
    [][(last'.op = "get_recent_files" /\ last'.result = "Ok")
        => /\ \A i \in 1..Len(last'.value) : PathExists(last'.value[i].path, disk')
           /\ Readable(recentFile)
                => /\ Len(last'.value)
                        = Len(StoredFiles) - Cardinality(MissingIn(StoredFiles, disk))
                   /\ last'.value
                        = SelectSeq(StoredFiles, LAMBDA f : PathExists(f.path, disk))
                   /\ recentFile' = to_string_pretty(RecentFilesData(last'.value))]_vars

C5_Witness ==
    /\ last.op = "get_recent_files" /\ last.result = "Ok"
    /\ last.removed >= 1
    /\ Len(last.value) >= 2
    /\ StoredFiles = last.value

\* the session stored in session.json: the default when the file is absent
StoredSession == IF Readable(sessionFile) THEN sessionFile.doc ELSE SessionDefault

(* C6: a get_session that succeeds returns no missing path in open_files   *)
(* and no missing active_file; its open_files is the stored open_files     *)
(* without the missing paths, in the stored order.                         *)
C6_SessionHasNoMissingPath ==
    [][(last'.op = "get_session" /\ last'.result = "Ok")
        => /\ \A i \in 1..Len(last'.value.open_files) :
                PathExists(last'.value.open_files[i], disk')
           /\ \A i \in 1..Len(last'.value.active_file) :
                PathExists(last'.value.active_file[i], disk')
           /\ last'.value.open_files
                = SelectSeq(StoredSession.open_files, LAMBDA q : PathExists(q, disk))
           /\ last'.value.active_file \in {None, StoredSession.active_file}]_vars

C6_Witness ==
    /\ last.op = "get_session" /\ last.result = "Ok"
    /\ last.removed >= 1
    /\ Len(last.value.open_files) >= 2
    /\ last.value.active_file = None
    /\ last.save = "Ok"

(* C7: a successful save_session(F, a) leaves session.json holding exactly *)
(* F and a, whatever it held before; a get_session that follows it and     *)
(* succeeds returns exactly F and a when every path of F and a exists, in  *)
(* particular <<>> and None after save_session(<<>>, None).                *)
AllExist(open_files, active_file, d) ==
    /\ \A i \in 1..Len(open_files) : PathExists(open_files[i], d)
    /\ \A i \in 1..Len(active_file) : PathExists(active_file[i], d)

C7_SaveThenGet ==
    [][/\ (last'.op = "save_session" /\ last'.result = "Ok")
            => sessionFile' = to_string_pretty(
                                 SessionData(last'.open_files, last'.active_file))
       /\ (/\ last.op = "save_session" /\ last.result = "Ok"
           /\ last'.op = "get_session" /\ last'.result = "Ok"
           /\ AllExist(last.open_files, last.active_file, disk))
            => /\ last'.value = SessionData(last.open_files, last.active_file)
               /\ last'.removed = 0]_vars

C7_Witness ==
    /\ last.op = "get_session" /\ last.result = "Ok"
    /\ Len(last.value.open_files) = NumOpenPaths
    /\ last.value.active_file # None
    /\ sessionFile = to_string_pretty(last.value)

(* C9 as claimed: when get_session removes an entry and the save of the    *)
(* corrected session fails, it still returns the corrected session and     *)
(* session.json is left as it was.                                         *)
C9_Claimed ==
    [][(last'.op = "get_session" /\ last'.removed > 0 /\ last'.save # "Ok")
        => /\ last'.result = "Ok"
           /\ AllExist(last'.value.open_files, last'.value.active_file, disk')
           /\ sessionFile' = sessionFile]_vars

(* C9: when get_session removes an entry and the save of the corrected     *)
(* session fails, it still returns the corrected session; session.json is  *)
(* left as it was, or, when the write failed after the file was truncated, *)
(* holds text that is no document.                                         *)
C9_PruneSaveFailureSwallowed ==
    [][(last'.op = "get_session" /\ last'.removed > 0 /\ last'.save # "Ok")
        => /\ last'.result = "Ok"
           /\ AllExist(last'.value.open_files, last'.value.active_file, disk')
           /\ last'.value.open_files
                = SelectSeq(StoredSession.open_files, LAMBDA q : PathExists(q, disk))
           /\ sessionFile' \in {sessionFile, MalformedFile}
           /\ (last'.fault # "save_partial") => (sessionFile' = sessionFile)]_vars

C9_Witness ==
    /\ last.op = "get_session" /\ last.result = "Ok"
    /\ last.removed > 0
    /\ last.save = "IoError"
    /\ Len(last.value.open_files) >= 1
    /\ Readable(sessionFile)
    /\ Len(sessionFile.doc.open_files) > Len(last.value.open_files)

\* get_recent_files and get_session on a store whose file is absent return
\* the default and leave the file absent
LoadOfAbsentStore ==
    /\ (last'.op = "get_recent_files" /\ recentFile = AbsentFile
            /\ last'.fault = "none")
        => (last'.result = "Ok" /\ last'.value = <<>> /\ recentFile' = AbsentFile)
    /\ (last'.op = "get_session" /\ sessionFile = AbsentFile
            /\ last'.fault = "none")
        => (last'.result = "Ok" /\ last'.value = SessionData(<<>>, None)
            /\ sessionFile' = AbsentFile)

(* C8 as claimed: get_recent_files and get_session on a store whose file   *)
(* is absent return the default and leave the file absent;                 *)
(* recent_files.json comes into existence only by the save of              *)
(* add_recent_file, session.json only by save_session.                     *)
C8_Claimed ==
    [][/\ LoadOfAbsentStore
       /\ (recentFile = AbsentFile /\ recentFile' # AbsentFile)
            => (last'.op = "add_recent_file" /\ last'.save # "none")
       /\ (sessionFile = AbsentFile /\ sessionFile' # AbsentFile)
            => (last'.op = "save_session" /\ last'.save # "none")]_vars

(* C8: get_recent_files and get_session on a store whose file is absent    *)
(* return the default (no recent files; no open files and no active file)  *)
(* and leave the file absent; recent_files.json comes into existence only  *)
(* by the save of add_recent_file, session.json only by save_session, or   *)
(* either by a write_file that is handed the path of that file.            *)
C8_LoadCreatesNoFile ==
    [][/\ LoadOfAbsentStore
       /\ (recentFile = AbsentFile /\ recentFile' # AbsentFile)
            => \/ (last'.op = "add_recent_file" /\ last'.save # "none")
               \/ (last'.op = "write_file" /\ last'.path = RecentFilesPath)
       /\ (sessionFile = AbsentFile /\ sessionFile' # AbsentFile)
            => \/ (last'.op = "save_session" /\ last'.save # "none")
               \/ (last'.op = "write_file" /\ last'.path = SessionPath)]_vars

C8_Witness ==
    /\ last.op = "get_session" /\ last.result = "Ok"
    /\ last.value = SessionData(<<>>, None)
    /\ sessionFile = AbsentFile
    /\ recentFile = AbsentFile
    /\ appDataDir
    /\ disk # {}

(* C10: when get_recent_files removes an entry and the save of the pruned  *)
(* list fails, it returns that error and no list; when it removes nothing  *)
(* it attempts no save, so with a readable (or absent) store that cannot   *)
(* be written it still succeeds.                                           *)
C10_PruneSaveFailurePropagates ==
    (last.op = "get_recent_files")
    => /\ ((last.removed > 0 /\ last.save # "Ok")
            => (last.result = last.save /\ last.result \in {"DirectoryError", "IoError"}
                /\ last.value = <<>>))
       /\ ((last.removed = 0) => (last.save = "none"))
       /\ ((last.removed = 0 /\ ~last.writable /\ recentFile.kind # "malformed")
            => last.result = "Ok")

C10_Witness ==
    /\ last.op = "get_recent_files"
    /\ last.removed > 0
    /\ last.save = "IoError"
    /\ last.result = "IoError"

(* C12: a read_file that directly follows a successful write_file of the   *)
(* same path returns the text that was written, whatever the file held     *)
(* before, and fails only when the read itself is hit by a fault.          *)
C12_ReadAfterWrite ==
    [][(/\ last.op = "write_file" /\ last.result = "Ok"
        /\ last'.op = "read_file" /\ last'.path = last.path)
        => /\ (last'.fault = "none") => (last'.result = "Ok")
           /\ (last'.result = "Ok") => (last'.value = last.content[1])
           /\ FileAt(last.path) = last.content[1]]_vars

C12_Witness ==
    /\ last.op = "read_file" /\ last.result = "Ok"
    /\ last.value = Text(NumTexts)

\* a path string cut at its separators, and its components as the
\* documentation of std::path::Path::components gives them: the root,
\* then every run between separators that is not empty and is not a dot
\* alone, but for a dot that starts a relative path
RECURSIVE Runs(_)
Runs(s) ==
    IF s = <<>> THEN << <<>> >>
    ELSE LET r == Runs(Tail(s))
         IN  IF Head(s) = "/" THEN << <<>> >> \o r
             ELSE << <<Head(s)>> \o Head(r) >> \o Tail(r)

Components(s) ==
    LET runs == Runs(s)
    IN  (IF s # <<>> /\ s[1] = "/" THEN << <<"/">> >> ELSE <<>>)
        \o (IF Head(runs) # <<>> THEN <<Head(runs)>> ELSE <<>>)
        \o SelectSeq(Tail(runs), LAMBDA r : r # <<>> /\ r # <<".">>)

HasParent(s) ==
    /\ Components(s) # <<>>
    /\ Components(s)[Len(Components(s))] # <<"/">>

(* C13: get_file_dir succeeds exactly on the paths that have a parent,     *)
(* that is, a last component that is not the root; it then returns the     *)
(* start of the path that holds the components before the last one, with   *)
(* no separator at its end (the root apart): "/a/b" for "/a/b/c.txt".  On  *)
(* every other path (the empty path, the root) it fails with the path      *)
(* error.                                                                  *)
C13_ParentOrPathError ==
    (last.op = "get_file_dir")
    => /\ (last.result = "Ok") <=> HasParent(last.path)
       /\ (last.result # "Ok") => (last.result = "PathError")
       /\ (last.result = "Ok")
            => /\ Len(last.value) <= Len(last.path)
               /\ last.value = SubSeq(last.path, 1, Len(last.value))
               /\ Components(last.value)
                    = SubSeq(Components(last.path), 1, Len(Components(last.path)) - 1)
               /\ (last.value # <<>> /\ last.value[Len(last.value)] = "/")
                    => (last.value = <<"/">>)
       /\ (last.path = <<"/", "a", "/", "b", "/", "c.txt">>)
            => (last.value = <<"/", "a", "/", "b">>)

C13_Witness ==
    /\ last.op = "get_file_dir" /\ last.result = "Ok"
    /\ last.path = <<"/", "a", "/", "b", "/", "c.txt">>
    /\ last.value = <<"/", "a", "/", "b">>

(* C15: get_session writes session.json only when it removed an entry of   *)
(* open_files.  When every stored open file exists and the stored active   *)
(* file is missing, it returns the stored open files with no active file   *)
(* and leaves session.json, stale active file included, as it was; when it *)
(* removes an entry and the save succeeds, session.json holds the session  *)
(* it returns, a cleared active file with it.                              *)
C15_WritesOnlyOnPrune ==
    [][(last'.op = "get_session" /\ last'.result = "Ok")
        => /\ (last'.removed = 0)
                => (last'.save = "none" /\ sessionFile' = sessionFile)
           /\ (/\ Readable(sessionFile)
               /\ \A i \in 1..Len(StoredSession.open_files) :
                      PathExists(StoredSession.open_files[i], disk)
               /\ StoredSession.active_file # None
               /\ ~PathExists(StoredSession.active_file[1], disk))
                => /\ last'.removed = 0
                   /\ last'.value = SessionData(StoredSession.open_files, None)
                   /\ sessionFile' = sessionFile
           /\ (last'.removed > 0 /\ last'.save = "Ok")
                => /\ sessionFile' = to_string_pretty(last'.value)
                   /\ AllExist(sessionFile'.doc.open_files,
                               sessionFile'.doc.active_file, disk')]_vars

C15_Witness ==
    /\ last.op = "get_session" /\ last.result = "Ok"
    /\ last.removed = 0 /\ last.save = "none"
    /\ Readable(sessionFile)
    /\ Len(sessionFile.doc.open_files) >= 1
    /\ sessionFile.doc.active_file # None
    /\ sessionFile.doc.active_file[1] \notin disk
    /\ last.value = SessionData(sessionFile.doc.open_files, None)

\* what get_recent_files and add_recent_file do when recent_files.json
\* holds text that is no document
MalformedStoreRejects ==
    (last'.op \in {"get_recent_files", "add_recent_file"})
    => /\ last'.result # "Ok"
       /\ recentFile' = recentFile
       /\ (/\ last'.fault = "none"
           /\ (last'.op = "add_recent_file") => PathExists(last'.path, disk))
            => (last'.result = "ParseError")

(* C16 as claimed: when recent_files.json holds malformed JSON,            *)
(* get_recent_files and add_recent_file fail (with the parse error when no *)
(* fault hits them and the path exists) and leave the file as it is, and   *)
(* no command makes it readable again.                                     *)
C16_Claimed ==
    [][(recentFile.kind = "malformed")
        => /\ MalformedStoreRejects
           /\ recentFile'.kind = "malformed"]_vars

(* C16: when recent_files.json holds malformed JSON, get_recent_files and  *)
(* add_recent_file fail (with the parse error when no fault hits them and  *)
(* the path exists) and leave the file as it is; the only command that     *)
(* changes the file is a write_file handed the path of recent_files.json.  *)
C16_MalformedStoreStays ==
    [][(recentFile.kind = "malformed")
        => /\ MalformedStoreRejects
           /\ (recentFile' # recentFile)
                => (last'.op = "write_file" /\ last'.path = RecentFilesPath
                    /\ last'.result = "Ok")]_vars

C16_Witness ==
    /\ recentFile.kind = "malformed"
    /\ last.op = "add_recent_file"
    /\ last.path \in disk
    /\ last.fault = "none"
    /\ last.result = "ParseError"

(* C17: when session.json holds malformed JSON, get_session fails (with    *)
(* the parse error when no fault hits it) and leaves the file as it is;    *)
(* a save_session that no fault hits succeeds whatever the file holds and  *)
(* stores the session it is handed; a get_session that directly follows a  *)
(* successful save_session succeeds unless a fault hits its load.          *)
C17_SaveRepairsSession ==
    [][/\ (sessionFile.kind = "malformed" /\ last'.op = "get_session")
            => /\ last'.result # "Ok"
               /\ sessionFile' = sessionFile
               /\ (last'.fault = "none") => (last'.result = "ParseError")
       /\ (last'.op = "save_session" /\ last'.fault = "none")
            => /\ last'.result = "Ok"
               /\ sessionFile' = to_string_pretty(
                      SessionData(last'.open_files, last'.active_file))
       /\ (/\ last.op = "save_session" /\ last.result = "Ok"
           /\ last'.op = "get_session"
           /\ last'.fault \notin {"load_dir", "load_read"})
            => (last'.result = "Ok")]_vars

C17_Witness ==
    /\ sessionFile.kind = "malformed"
    /\ last.op = "get_session"
    /\ last.fault = "none"
    /\ last.result = "ParseError"
    /\ disk # {}

(* C18: a get_recent_files that directly follows a successful              *)
(* get_recent_files, with no file created or deleted in between, succeeds  *)
(* (unless a fault hits its load), returns the same list, removes nothing  *)
(* and writes nothing; any get_recent_files that removes nothing attempts  *)
(* no save and leaves recent_files.json as it was, so the file changes     *)
(* under get_recent_files only when an entry was removed.                  *)
C18_GetIsIdempotent ==
    [][/\ (/\ last.op = "get_recent_files" /\ last.result = "Ok"
           /\ last'.op = "get_recent_files"
           /\ last'.fault \notin {"load_dir", "load_read"})
            => /\ last'.result = "Ok"
               /\ last'.value = last.value
               /\ last'.removed = 0
               /\ last'.save = "none"
               /\ recentFile' = recentFile
       /\ (last'.op = "get_recent_files" /\ last'.removed = 0)
            => (last'.save = "none" /\ recentFile' = recentFile)
       /\ (last'.op = "get_recent_files" /\ recentFile' # recentFile)
            => (last'.removed > 0 /\ last'.save # "none")]_vars

C18_Witness ==
    /\ last.op = "get_recent_files" /\ last.result = "Ok"
    /\ last.removed = 0 /\ last.save = "none"
    /\ Readable(recentFile)
    /\ Len(StoredFiles) >= 1
    /\ last.value = StoredFiles
    /\ disk # Paths

\* the paths of the list in a store text (none when the file is absent)
PathsIn(file) == IF Readable(file) THEN PathsOf(file.doc.files) ELSE <<>>

(* C14: load-modify-save is not atomic, the last writer wins: when an      *)
(* add_recent_file that runs beside others saves with success, the store   *)
(* holds its entry in front of the list it had loaded, so the entry of     *)
(* another call that saved after this load is lost, though that call       *)
(* returned success.                                                       *)
C14_LastWriterWins ==
    [][\A w \in Workers :
        (calls[w].pc = "loaded" /\ calls'[w].pc = "idle" /\ calls'[w].result = "Ok")
        => /\ Readable(recentFile')
           /\ PathsIn(recentFile')
                = <<calls[w].path>> \o Without(PathsIn(calls[w].loaded), calls[w].path)
           /\ \A v \in Workers \ {w} :
                (\A i \in 1..Len(PathsIn(calls[w].loaded)) :
                        PathsIn(calls[w].loaded)[i] # WorkerPath(v))
                => (\A i \in 1..Len(PathsIn(recentFile')) :
                        PathsIn(recentFile')[i] # WorkerPath(v))]_vars

\* two calls loaded the absent store, so before either saved, both
\* returned success, and the store holds one entry
C14_Witness ==
    /\ \A w \in 1..2 :
          /\ calls[w].pc = "idle"
          /\ calls[w].op = "add_recent_file"
          /\ calls[w].result = "Ok"
          /\ calls[w].loaded = AbsentFile
    /\ Readable(recentFile)
    /\ Len(StoredFiles) = 1

\* the error kinds each command maps its failures to
ErrorsOf(op) ==
    CASE op \in {"read_file", "write_file"} -> {"IoError"}
      [] op = "get_file_dir" -> {"PathError"}
      [] op = "add_recent_file"
            -> {"NotFoundError", "DirectoryError", "IoError", "ParseError"}
      [] op \in {"get_recent_files", "get_session"}
            -> {"DirectoryError", "IoError", "ParseError"}
      [] op = "save_session" -> {"DirectoryError", "IoError"}
      [] OTHER -> {}

=============================================================================
